---- MODULE Spec2Model ----
(***************************************************************************)
(* A model of ai/detector/detect.py: the YOLO post-processing pipeline     *)
(* (confidence filter, centre-to-corner conversion, per-class greedy NMS)  *)
(* and the stdin-driven main loop around it.                               *)
(*                                                                         *)
(* Numbers.  Scores are integers in hundredths (0.25 is 25).  Anchor       *)
(* centres and sizes are whole pixels; corner coordinates are kept in      *)
(* half pixels, so that cx - w/2 is exact.  Arithmetic is exact (the       *)
(* rounding of float32 is not modelled); the 0.00001 of nms_boxes is kept  *)
(* exactly, in fixed-point numbers with two base-EpsInv fraction digits.   *)
(***************************************************************************)
EXTENDS Integers, Sequences, FiniteSets, Bags, TLC

VARIABLES
    stdin,        \* the lines of standard input
    pos,          \* number of lines read
    pc,           \* where main is
    img_show,     \* args.img_show
    img_save,     \* args.img_save
    exc,          \* the exception that ended the loop, "none" while none
    released,     \* number of model.release() calls
    lateRun,      \* TRUE once model.run was called after model.release
    stdout,       \* what was printed to standard output
    srcFile,      \* per input line: the writes made to its source image file
    resultDir,    \* per input line: the copies written under ./result
    input,        \* the raw output tensor post_process is working on
    stage,        \* where post_process is
    cand,         \* the candidates that passed the confidence filter
    corder,       \* the order in which set(class_ids) was iterated
    asorts,       \* per class: what scores.argsort() returned
    keeps,        \* per class: the candidates nms_boxes kept, as indices of cand
    dets          \* what post_process returned

vars == <<stdin, pos, pc, img_show, img_save, exc, released, lateRun,
          stdout, srcFile, resultDir, input, stage, cand, corder, asorts, keeps, dets>>

mainVars == <<stdin, pos, pc, img_show, img_save, exc, released, lateRun,
              stdout, srcFile, resultDir>>

ppVars == <<input, stage, cand, corder, asorts, keeps, dets>>

-----------------------------------------------------------------------------
(* Program constants *)

OBJ_THRESH == 25

NMS_THRESH == 45

\* 1 / 0.00001, the term added to the intersection's width and height
EpsInv == 100000

\* a prefix of the 80-entry class catalogue
CLASSES == <<"person", "bicycle">>

-----------------------------------------------------------------------------
(* Bounds *)

MaxAnchors == 3

MaxLines == 2

ImgW == 4

ImgH == 4

-----------------------------------------------------------------------------
(* Helpers *)

Min2(a, b) == IF a <= b THEN a ELSE b

Max2(a, b) == IF a >= b THEN a ELSE b

Range(s) == {s[i] : i \in DOMAIN s}

Perms(S) == {p \in [1..Cardinality(S) -> S] : \A i, j \in DOMAIN p : i # j => p[i] # p[j]}

Reverse(s) == [i \in 1..Len(s) |-> s[Len(s) + 1 - i]]

RECURSIVE Concat(_)
Concat(ss) == IF ss = <<>> THEN <<>> ELSE Head(ss) \o Concat(Tail(ss))

\* numpy fancy indexing a[inds]
Take(a, inds) == [k \in 1..Len(inds) |-> a[inds[k]]]

-----------------------------------------------------------------------------
(* Exact fixed-point numbers <<c0, c1, c2>> = c0 + c1/EpsInv + c2/EpsInv^2 *)

Norm(p) ==
    LET c1 == p[2] + (p[3] \div EpsInv)
    IN  <<p[1] + (c1 \div EpsInv), c1 % EpsInv, p[3] % EpsInv>>

Sign(p) ==
    LET n == Norm(p)
    IN  IF n[1] > 0 THEN 1
        ELSE IF n[1] < 0 THEN -1
        ELSE IF n[2] > 0 \/ n[3] > 0 THEN 1 ELSE 0

FromInt(k) == <<k, 0, 0>>

Minus(p, q) == <<p[1] - q[1], p[2] - q[2], p[3] - q[3]>>

Scale(k, p) == <<k * p[1], k * p[2], k * p[3]>>

\* the product of two numbers with one fraction digit each
Times(p, q) == <<p[1] * q[1], p[1] * q[2] + p[2] * q[1], p[2] * q[2]>>

\* np.maximum(0.0, p)
Max0(p) == IF Sign(p) > 0 THEN p ELSE FromInt(0)

-----------------------------------------------------------------------------
(* nms_boxes.  A box is <<x1, y1, x2, y2>> in half pixels. *)

areas(b) == (b[3] - b[1]) * (b[4] - b[2])

\* 0.00001 pixel is 2/EpsInv half pixels
inter(bi, bj) ==
    LET xx1 == Max2(bi[1], bj[1])
        yy1 == Max2(bi[2], bj[2])
        xx2 == Min2(bi[1] + (bi[3] - bi[1]), bj[1] + (bj[3] - bj[1]))
        yy2 == Min2(bi[2] + (bi[4] - bi[2]), bj[2] + (bj[4] - bj[2]))
        w1 == Max0(<<xx2 - xx1, 2, 0>>)
        h1 == Max0(<<yy2 - yy1, 2, 0>>)
    IN  Times(w1, h1)

union(bi, bj) == Minus(FromInt(areas(bi) + areas(bj)), inter(bi, bj))

\* inter / union as a float: a finite quotient, an infinity, or NaN (0/0)
ovr(bi, bj) ==
    LET i == inter(bi, bj)
        u == union(bi, bj)
    IN  IF Sign(u) = 0
        THEN IF Sign(i) = 0 THEN [kind |-> "nan"] ELSE [kind |-> "inf", sign |-> Sign(i)]
        ELSE [kind |-> "finite", num |-> i, den |-> u]

ovr_le_thresh_bug(bi, bj) ==
    LET o == ovr(bi, bj)
    IN  CASE o.kind = "nan" -> FALSE
          [] o.kind = "inf" -> o.sign < 0
          [] OTHER ->
                LET d == Minus(Scale(100, o.num), Scale(NMS_THRESH, o.den))
                IN  IF Sign(o.den) > 0 THEN Sign(d) >= 0 ELSE Sign(d) <= 0

\* ovr <= NMS_THRESH as IEEE compares: false for NaN and for +inf; for a
\* finite quotient, 100 * inter <= 45 * union when union > 0, the reverse when
\* union < 0
ovr_le_thresh(bi, bj) ==
    LET o == ovr(bi, bj)
    IN  CASE o.kind = "nan" -> FALSE
          [] o.kind = "inf" -> o.sign < 0
          [] OTHER ->
                LET d == Minus(Scale(100, o.num), Scale(NMS_THRESH, o.den))
                IN  IF Sign(o.den) > 0 THEN Sign(d) <= 0 ELSE Sign(d) >= 0

\* what scores.argsort() may return: numpy's default sort is not stable, so
\* any permutation of the indices that puts the scores in ascending order
Argsorts(scores) ==
    {p \in Perms(DOMAIN scores) : \A k \in 1..(Len(scores) - 1) : scores[p[k]] <= scores[p[k + 1]]}

RECURSIVE nms_loop_prepend(_, _, _)
nms_loop_prepend(boxes, order, keep) ==
    IF Len(order) = 0 THEN keep
    ELSE LET i == order[1]
             rest == Tail(order)
             inds == SelectSeq(rest, LAMBDA j : ovr_le_thresh(boxes[i], boxes[j]))
         IN  nms_loop_prepend(boxes, inds, <<i>> \o keep)

\* the while loop: order is what is left, keep what was selected
RECURSIVE nms_loop(_, _, _)
nms_loop(boxes, order, keep) ==
    IF Len(order) = 0 THEN keep
    ELSE LET i == order[1]
             rest == Tail(order)
             inds == SelectSeq(rest, LAMBDA j : ovr_le_thresh(boxes[i], boxes[j]))
         IN  nms_loop(boxes, inds, Append(keep, i))

first_order_noreverse(asort) == asort

\* order = scores.argsort()[::-1]
first_order(asort) == Reverse(asort)

nms_boxes(boxes, asort) == nms_loop(boxes, first_order(asort), <<>>)

-----------------------------------------------------------------------------
(* post_process.  A raw output tensor is [ok, rows]: ok says that its shape  *)
(* is (1, 4+K, N); rows are its N anchors [cx, cy, w, h, cs], cs the K class *)
(* scores.                                                                   *)

RECURSIVE np_max(_)
np_max(cs) == IF Len(cs) = 1 THEN cs[1] ELSE Max2(cs[1], np_max(Tail(cs)))

\* np.argmax: the first index of the maximum, counted from 0
np_argmax(cs) == (CHOOSE k \in DOMAIN cs : cs[k] = np_max(cs) /\ \A m \in 1..(k - 1) : cs[m] # np_max(cs)) - 1

passes_strict(a) == np_max(a.cs) > OBJ_THRESH

\* mask = class_max_scores >= OBJ_THRESH
passes(a) == np_max(a.cs) >= OBJ_THRESH

\* xywh (centre, whole pixels) to xyxy (corners, half pixels)
xyxy(a) == <<2 * a.cx - a.w, 2 * a.cy - a.h, 2 * a.cx + a.w, 2 * a.cy + a.h>>

\* lines 86-104: the candidates, in anchor order
candidates(rows) ==
    LET kept == SelectSeq(rows, passes)
    IN  [k \in 1..Len(kept) |->
            [box |-> xyxy(kept[k]), cls |-> np_argmax(kept[k].cs), score |-> np_max(kept[k].cs)]]

class_ids(cs) == {cs[k].cls : k \in DOMAIN cs}

\* inds = np.where(class_ids == c)[0]
class_inds(cs, c) == SelectSeq([i \in 1..Len(cs) |-> i], LAMBDA i : cs[i].cls = c)

\* s = class_max_scores[inds]
class_scores(cs, c) == [k \in 1..Len(class_inds(cs, c)) |-> cs[class_inds(cs, c)[k]].score]

\* the argsort results the per-class calls of nms_boxes may see, one per class
RECURSIVE ArgsortsOver(_, _)
ArgsortsOver(cs, S) ==
    IF S = {} THEN {<<>>}
    ELSE LET c == CHOOSE x \in S : TRUE
         IN  {(c :> p) @@ f : p \in Argsorts(class_scores(cs, c)), f \in ArgsortsOver(cs, S \ {c})}

ArgsortChoices(cs) == ArgsortsOver(cs, class_ids(cs))

\* keep = nms_boxes(b, s), as indices of the candidates
class_keep(cs, c, as) ==
    LET inds == class_inds(cs, c)
        b == [k \in 1..Len(inds) |-> cs[inds[k]].box]
    IN  Take(inds, nms_boxes(b, as[c]))

all_keeps(cs, as) == [c \in class_ids(cs) |-> class_keep(cs, c, as)]

None == [isNone |-> TRUE, rows |-> <<>>]

\* lines 106-126: the loop over set(class_ids), iterated in the order co (the
\* order of a Python set is not specified), and the concatenation
class_nms(cs, co, as) ==
    LET per == [n \in 1..Len(co) |-> Take(cs, class_keep(cs, co[n], as))]
        nonempty == SelectSeq(per, LAMBDA r : Len(r) # 0)
    IN  IF Len(cs) = 0 \/ Len(nonempty) = 0 THEN None
        ELSE [isNone |-> FALSE, rows |-> Concat(nonempty)]

\* boxes, classes, scores = post_process(outputs), on a tensor of the right
\* shape
post_process(t, co, as) == class_nms(candidates(t.rows), co, as)

-----------------------------------------------------------------------------
(* The inputs *)

\* <<cx, cy, w, h>> in whole pixels: three overlapping full-height boxes, a
\* half-pixel box, a box right of the image, and boxes of no area
AnchorBoxes ==
    {<<2, 2, 4, 4>>, <<3, 2, 4, 4>>, <<4, 2, 4, 4>>, <<2, 2, 0, 0>>, <<5, 2, 0, 0>>}

\* the class scores of an anchor, in hundredths
ClassScoreVecs == {<<60, 10>>, <<10, 60>>, <<25, 25>>, <<24, 10>>}

Anchors ==
    {[cx |-> b[1], cy |-> b[2], w |-> b[3], h |-> b[4], cs |-> v] :
        b \in AnchorBoxes, v \in ClassScoreVecs}

Tensors ==
    {[ok |-> TRUE, rows |-> r] : r \in UNION {[1..n -> Anchors] : n \in 0..MaxAnchors}}

\* a tensor whose shape is not (1, 4+K, N): post_process raises on it
BadTensor == [ok |-> FALSE, rows |-> <<>>]

\* what model.run returns in the main loop: a tensor of the wrong shape, no
\* anchor, one anchor (inside the image, on half pixels, across its right
\* edge, right of it, of no area), or two anchors
MainBoxes ==
    {<<2, 2, 4, 4>>, <<1, 1, 1, 1>>, <<4, 2, 4, 4>>, <<7, 2, 2, 4>>, <<5, 2, 0, 0>>}

MainScoreVecs == {<<60, 10>>, <<10, 60>>, <<24, 10>>}

MainAnchors ==
    {[cx |-> b[1], cy |-> b[2], w |-> b[3], h |-> b[4], cs |-> v] :
        b \in MainBoxes, v \in MainScoreVecs}

TwoAnchors ==
    {<<[cx |-> 2, cy |-> 2, w |-> 4, h |-> 4, cs |-> <<60, 10>>],
       [cx |-> 3, cy |-> 2, w |-> 4, h |-> 4, cs |-> <<25, 25>>]>>,
     <<[cx |-> 7, cy |-> 2, w |-> 2, h |-> 4, cs |-> <<10, 60>>],
       [cx |-> 1, cy |-> 1, w |-> 1, h |-> 1, cs |-> <<60, 10>>]>>}

ModelOutputs ==
    {BadTensor}
        \cup {[ok |-> TRUE, rows |-> r] : r \in {<<>>} \cup {<<a>> : a \in MainAnchors} \cup TwoAnchors}

LineKinds == {"blank", "missing", "unreadable", "image"}

Inputs == UNION {[1..n -> LineKinds] : n \in 0..MaxLines}

NoTensor == [ok |-> TRUE, rows |-> <<>>]

-----------------------------------------------------------------------------
(* post_process as a state machine of its own *)

PPIdle ==
    /\ input = NoTensor
    /\ stage = "idle"
    /\ cand = <<>>
    /\ corder = <<>>
    /\ asorts = <<>>
    /\ keeps = <<>>
    /\ dets = None

MainIdle ==
    /\ stdin = <<>>
    /\ pos = 0
    /\ pc = "loop"
    /\ img_show = FALSE
    /\ img_save = FALSE
    /\ exc = "none"
    /\ released = 0
    /\ lateRun = FALSE
    /\ stdout = <<>>
    /\ srcFile = <<>>
    /\ resultDir = <<>>

InitPP ==
    /\ MainIdle
    /\ input \in Tensors
    /\ stage = "start"
    /\ cand = <<>>
    /\ corder = <<>>
    /\ asorts = <<>>
    /\ keeps = <<>>
    /\ dets = None

\* lines 79-104
CandidateFilter ==
    /\ stage = "start"
    /\ cand' = candidates(input.rows)
    /\ stage' = "filtered"
    /\ UNCHANGED <<input, corder, asorts, keeps, dets>>
    /\ UNCHANGED mainVars

\* lines 96-97 and 106-126
ClassNMS ==
    /\ stage = "filtered"
    /\ \E co \in Perms(class_ids(cand)), as \in ArgsortChoices(cand) :
          /\ corder' = co
          /\ asorts' = as
          /\ keeps' = all_keeps(cand, as)
          /\ dets' = class_nms(cand, co, as)
    /\ stage' = "done"
    /\ UNCHANGED <<input, cand>>
    /\ UNCHANGED mainVars

NextPP == CandidateFilter \/ ClassNMS

SpecPP == InitPP /\ [][NextPP]_vars

-----------------------------------------------------------------------------
(* main *)

\* int(_b) of a coordinate held in half pixels: truncation toward zero
int(x) == IF x >= 0 THEN x \div 2 ELSE -((-x) \div 2)

\* np.clip(x, 0, limit), limit in whole pixels
np_clip(x, limit) == Min2(Max2(x, 0), 2 * limit)

\* lines 237-240
clip_box(b) == <<np_clip(b[1], ImgW), np_clip(b[2], ImgH), np_clip(b[3], ImgW), np_clip(b[4], ImgH)>>

clip_rows(rows) == [k \in 1..Len(rows) |-> [rows[k] EXCEPT !.box = clip_box(rows[k].box)]]

\* draw: the rectangles and labels put on the image, in order
draw_one(r) ==
    LET left == Max2(0, int(r.box[1]))
        top == Max2(0, int(r.box[2]))
        right == Min2(ImgW, int(r.box[3]))
        bottom == Min2(ImgH, int(r.box[4]))
    IN  IF right <= left \/ bottom <= top THEN <<>>
        ELSE <<[rect |-> <<left, top, right, bottom>>,
                label |-> <<CLASSES[r.cls + 1], r.score>>,
                at |-> <<left, Max2(top - 6, 10)>>]>>

draw(rows) == Concat([k \in 1..Len(rows) |-> draw_one(rows[k])])

\* lines 249-255: one entry of the detections list
json_one(r) ==
    <<[object |-> CLASSES[r.cls + 1],
       box |-> <<int(r.box[1]), int(r.box[2]), int(r.box[3]), int(r.box[4])>>,
       probability |-> r.score]>>

json_detections(rows) == Concat([k \in 1..Len(rows) |-> json_one(rows[k])])

\* line 234
detected(d) == ~d.isNone /\ Len(d.rows) > 0

overwrites_source_gated(d, show, save) == detected(d) /\ (show \/ save)

\* lines 234-246: whether cv2.imwrite(img_path, img_annotated) runs
overwrites_source(d, show, save) == detected(d)

release_unless_error(n, e) == IF e = "Error" THEN n ELSE n + 1

\* lines 289-290: the finally block
release_at_exit(n, e) == n + 1

after_read_unchecked(kind) == IF kind \in {"image", "unreadable"} THEN "run" ELSE "loop"

\* lines 201-213: where the loop goes after reading a line: the three
\* continue statements, or on to the inference
after_read(kind) == IF kind = "image" THEN "run" ELSE "loop"

Line(kind, image, detections) == [kind |-> kind, image |-> image, detections |-> detections]

Init ==
    /\ PPIdle
    /\ stdin \in Inputs
    /\ pos = 0
    /\ pc = "loop"
    /\ img_show \in BOOLEAN
    /\ img_save \in BOOLEAN
    /\ exc = "none"
    /\ released = 0
    /\ lateRun = FALSE
    /\ stdout = <<>>
    /\ srcFile = [i \in 1..Len(stdin) |-> <<>>]
    /\ resultDir = [i \in 1..Len(stdin) |-> <<>>]

\* lines 199-217: the next line of stdin, up to the decoded image
ReadLine ==
    /\ pc = "loop"
    /\ pos < Len(stdin)
    /\ pos' = pos + 1
    /\ pc' = after_read(stdin[pos + 1])
    /\ stdout' = IF stdin[pos + 1] = "missing"
                 THEN Append(stdout, Line("not_found", pos + 1, <<>>))
                 ELSE stdout
    /\ UNCHANGED <<stdin, img_show, img_save, exc, released, lateRun, srcFile, resultDir>>
    /\ UNCHANGED ppVars

\* line 199: stdin is exhausted
EndOfInput ==
    /\ pc = "loop"
    /\ pos = Len(stdin)
    /\ pc' = "finally"
    /\ UNCHANGED <<stdin, pos, img_show, img_save, exc, released, lateRun, stdout, srcFile, resultDir>>
    /\ UNCHANGED ppVars

\* lines 219-226
RunModel ==
    /\ pc = "run"
    /\ input' \in ModelOutputs
    /\ lateRun' = (lateRun \/ released > 0)
    /\ stage' = "start"
    /\ cand' = <<>>
    /\ corder' = <<>>
    /\ asorts' = <<>>
    /\ keeps' = <<>>
    /\ dets' = None
    /\ pc' = "post"
    /\ UNCHANGED <<stdin, pos, img_show, img_save, exc, released, stdout, srcFile, resultDir>>

\* line 228
PostProcess ==
    /\ pc = "post"
    /\ input.ok
    /\ cand' = candidates(input.rows)
    /\ \E co \in Perms(class_ids(cand')), as \in ArgsortChoices(cand') :
          /\ corder' = co
          /\ asorts' = as
          /\ keeps' = all_keeps(cand', as)
          /\ dets' = post_process(input, co, as)
    /\ stage' = "done"
    /\ pc' = "emit"
    /\ UNCHANGED input
    /\ UNCHANGED <<stdin, pos, img_show, img_save, exc, released, lateRun, stdout, srcFile, resultDir>>

PostProcessSkips ==
    /\ pc = "post"
    /\ ~input.ok
    /\ pc' = "loop"
    /\ UNCHANGED <<stdin, pos, img_show, img_save, exc, released, lateRun, stdout, srcFile, resultDir>>
    /\ UNCHANGED ppVars

\* line 228, on a tensor of the wrong shape: the indexing or np.max raises,
\* no except clause matches, the finally block runs
PostProcessRaises ==
    /\ pc = "post"
    /\ ~input.ok
    /\ exc' = "Error"
    /\ pc' = "finally"
    /\ UNCHANGED <<stdin, pos, img_show, img_save, released, lateRun, stdout, srcFile, resultDir>>
    /\ UNCHANGED ppVars

\* lines 231-263
Emit ==
    /\ pc = "emit"
    /\ LET rows == IF detected(dets) THEN clip_rows(dets.rows) ELSE dets.rows
       IN  /\ dets' = [dets EXCEPT !.rows = rows]
           /\ srcFile' = IF overwrites_source(dets, img_show, img_save)
                         THEN [srcFile EXCEPT ![pos] = Append(@, draw(rows))]
                         ELSE srcFile
           /\ stdout' = Append(stdout,
                               Line("json", pos, IF detected(dets) THEN json_detections(rows) ELSE <<>>))
    /\ pc' = "side"
    /\ UNCHANGED <<stdin, pos, img_show, img_save, exc, released, lateRun, resultDir>>
    /\ UNCHANGED <<input, stage, cand, corder, asorts, keeps>>

\* lines 265-283
SideEffects ==
    /\ pc = "side"
    /\ stdout' = IF img_show \/ img_save THEN Append(stdout, Line("debug", pos, <<>>)) ELSE stdout
    /\ resultDir' = IF img_save
                    THEN [resultDir EXCEPT ![pos] = Append(@, IF dets.isNone THEN <<>> ELSE draw(dets.rows))]
                    ELSE resultDir
    /\ pc' = "loop"
    /\ UNCHANGED <<stdin, pos, img_show, img_save, exc, released, lateRun, srcFile>>
    /\ UNCHANGED ppVars

\* lines 285-286: an interrupt anywhere in the try block
KeyboardInterrupt ==
    /\ pc \in {"loop", "run", "post", "emit", "side"}
    /\ exc' = "KeyboardInterrupt"
    /\ stdout' = Append(stdout, Line("exiting", pos, <<>>))
    /\ pc' = "finally"
    /\ UNCHANGED <<stdin, pos, img_show, img_save, released, lateRun, srcFile, resultDir>>
    /\ UNCHANGED ppVars

\* lines 289-291
Finally ==
    /\ pc = "finally"
    /\ released' = release_at_exit(released, exc)
    /\ pc' = "exited"
    /\ UNCHANGED <<stdin, pos, img_show, img_save, exc, lateRun, stdout, srcFile, resultDir>>
    /\ UNCHANGED ppVars

Next ==
    \/ ReadLine
    \/ EndOfInput
    \/ RunModel
    \/ PostProcess
    \/ PostProcessRaises
    \/ Emit
    \/ SideEffects
    \/ KeyboardInterrupt
    \/ Finally

Spec == Init /\ [][Next]_vars

-----------------------------------------------------------------------------
(* What the claims speak of *)

Count(s, x) == Cardinality({i \in DOMAIN s : s[i] = x})

\* the overlap of two boxes by the formula of nms_boxes, compared as numbers
IoUDefined(bi, bj) == ovr(bi, bj).kind = "finite"

IoUAtMost(bi, bj) ==
    /\ IoUDefined(bi, bj)
    /\ LET o == ovr(bi, bj)
       IN  Sign(Minus(Scale(100, o.num), Scale(NMS_THRESH, o.den))) * Sign(o.den) <= 0

IoUExceeds(bi, bj) ==
    \/ ovr(bi, bj).kind = "inf" /\ ovr(bi, bj).sign > 0
    \/ /\ IoUDefined(bi, bj)
       /\ LET o == ovr(bi, bj)
          IN  Sign(Minus(Scale(100, o.num), Scale(NMS_THRESH, o.den))) * Sign(o.den) > 0

\* the confidence of an anchor: its largest class score
Confidence(a) == CHOOSE v \in Range(a.cs) : \A u \in Range(a.cs) : u <= v

\* the candidates kept by NMS, as indices of cand
KeptSet == UNION {Range(keeps[c]) : c \in DOMAIN keeps}

\* the distinct classes of a sequence of rows, in the order first met
RECURSIVE FirstSeen(_)
FirstSeen(rows) ==
    IF rows = <<>> THEN <<>>
    ELSE LET init == FirstSeen(SubSeq(rows, 1, Len(rows) - 1))
             c == rows[Len(rows)].cls
         IN  IF c \in Range(init) THEN init ELSE Append(init, c)

\* C1: at the end of post_process, every returned row is a candidate, returned
\* no more often than it occurs among the candidates and with its class and
\* score, and any two returned rows of one class overlap by at most NMS_THRESH
C1_NmsSubsetAndSeparated ==
    stage = "done" =>
        /\ \A x \in Range(dets.rows) : Count(dets.rows, x) <= Count(cand, x)
        /\ Len(dets.rows) <= Len(cand)
        /\ \A i, j \in DOMAIN dets.rows :
              (i # j /\ dets.rows[i].cls = dets.rows[j].cls)
                  => IoUAtMost(dets.rows[i].box, dets.rows[j].box)

\* three candidates of one class, one of them suppressed and two returned
C1_Witness ==
    /\ stage = "done"
    /\ Len(cand) = 3
    /\ Len(dets.rows) = 2
    /\ \A k \in DOMAIN cand : cand[k].cls = 0
    /\ areas(dets.rows[1].box) > 0
    /\ areas(dets.rows[2].box) > 0

\* C2: the filter keeps exactly the anchors whose confidence is at least
\* OBJ_THRESH, in anchor order; no returned row has a lower score; and when no
\* anchor passes (there may be none at all) post_process returns None
C2_FilterKeepsIffAtLeastThresh ==
    stage \in {"filtered", "done"} =>
        LET pass == SelectSeq([i \in 1..Len(input.rows) |-> i],
                              LAMBDA i : Confidence(input.rows[i]) >= OBJ_THRESH)
        IN  /\ Len(cand) = Len(pass)
            /\ \A k \in DOMAIN cand :
                  /\ cand[k].score = Confidence(input.rows[pass[k]])
                  /\ cand[k].score >= OBJ_THRESH
                  /\ cand[k].box[1] + cand[k].box[3] = 4 * input.rows[pass[k]].cx
                  /\ cand[k].box[2] + cand[k].box[4] = 4 * input.rows[pass[k]].cy
                  /\ cand[k].box[3] - cand[k].box[1] = 2 * input.rows[pass[k]].w
                  /\ cand[k].box[4] - cand[k].box[2] = 2 * input.rows[pass[k]].h
            /\ stage = "done" =>
                  /\ \A i \in DOMAIN dets.rows : dets.rows[i].score >= OBJ_THRESH
                  /\ (Len(pass) = 0) => (dets = None)
                  /\ (Len(pass) > 0) => ~dets.isNone

\* an anchor exactly at the threshold is kept while one just below is dropped
C2_Witness ==
    /\ stage = "done"
    /\ Len(input.rows) = 2
    /\ Confidence(input.rows[1]) = OBJ_THRESH - 1
    /\ Confidence(input.rows[2]) = OBJ_THRESH
    /\ Len(cand) = 1
    /\ Len(dets.rows) = 1

\* the order in which nms_boxes takes up the candidates of class c, as indices
\* of cand: the reverse of what argsort returned
ProcOrder(c) == Take(class_inds(cand, c), Reverse(asorts[c]))

Pos(o, x) == CHOOSE i \in DOMAIN o : o[i] = x

NonIncreasingWithinClass ==
    \A i, j \in DOMAIN dets.rows :
        (i < j /\ dets.rows[i].cls = dets.rows[j].cls) => dets.rows[i].score >= dets.rows[j].score

Contiguous ==
    \A i, j, k \in DOMAIN dets.rows :
        (i < j /\ j < k /\ dets.rows[i].cls = dets.rows[k].cls) => dets.rows[j].cls = dets.rows[i].cls

C9_StableTieBreak ==
    stage = "done" =>
        \A c \in class_ids(cand) :
            \A a, b \in Range(class_inds(cand, c)) :
                (a < b /\ cand[a].score = cand[b].score) =>
                    /\ Pos(ProcOrder(c), a) < Pos(ProcOrder(c), b)
                    /\ IoUExceeds(cand[a].box, cand[b].box) => ~(b \in KeptSet /\ a \notin KeptSet)

\* C9 amended: the candidates of a class are taken up in the reverse of the
\* ascending order argsort returned, hence in non-increasing score order, ties
\* in whatever order that is; the kept ones are kept in that order, the first
\* taken up always; of two with equal score that overlap above NMS_THRESH at
\* most one is kept, and the one taken up first is kept unless a box kept
\* before it suppressed it
C9_ReverseArgsortOrder ==
    stage = "done" =>
        \A c \in class_ids(cand) :
            LET o == ProcOrder(c)
                k == keeps[c]
            IN  /\ Len(k) >= 1
                /\ k[1] = o[1]
                /\ \A a, b \in DOMAIN o : a < b => cand[o[a]].score >= cand[o[b]].score
                /\ \A a, b \in DOMAIN k : a < b => Pos(o, k[a]) < Pos(o, k[b])
                /\ \A a, b \in DOMAIN o :
                      (a < b /\ cand[o[a]].score = cand[o[b]].score
                             /\ IoUExceeds(cand[o[a]].box, cand[o[b]].box)) =>
                          /\ ~(o[a] \in Range(k) /\ o[b] \in Range(k))
                          /\ o[a] \notin Range(k) =>
                                \E m \in Range(k) :
                                    /\ Pos(o, m) < a
                                    /\ ~IoUAtMost(cand[m].box, cand[o[a]].box)

\* two candidates of one class with equal score that overlap above NMS_THRESH:
\* the later one is kept, the earlier one suppressed
C9_Witness ==
    /\ stage = "done"
    /\ Len(cand) = 2
    /\ cand[1].cls = cand[2].cls
    /\ cand[1].score = cand[2].score
    /\ IoUExceeds(cand[1].box, cand[2].box)
    /\ KeptSet = {2}
    /\ asorts[cand[1].cls] = <<1, 2>>

\* C10 as stated: every candidate that NMS does not return has a kept box of
\* its class, of at least its score, whose IoU with it exceeds NMS_THRESH; and
\* the best candidate of every class is kept
C10_DiscardedOnlyWhenSuppressed ==
    stage = "done" =>
        /\ \A k \in DOMAIN cand :
              k \notin KeptSet =>
                  \E m \in KeptSet :
                      /\ cand[m].cls = cand[k].cls
                      /\ cand[m].score >= cand[k].score
                      /\ IoUExceeds(cand[m].box, cand[k].box)
        /\ \A c \in class_ids(cand) :
              \E m \in Range(keeps[c]) :
                  \A k \in Range(class_inds(cand, c)) : cand[m].score >= cand[k].score

-----------------------------------------------------------------------------
(* The main loop's claims *)

JsonLines == SelectSeq(stdout, LAMBDA e : e.kind = "json")

JsonImages == [k \in 1..Len(JsonLines) |-> JsonLines[k].image]

HasJson(i) == \E k \in DOMAIN stdout : stdout[k].kind = "json" /\ stdout[k].image = i

\* the image lines among the first n lines of stdin, in order
ImageLines(n) == SelectSeq([i \in 1..n |-> i], LAMBDA i : stdin[i] = "image")

IsList(x) == DOMAIN x = 1..Len(x)

\* C3: the model is released exactly once, when main leaves the loop and not
\* before, whatever ended the loop; main cannot stop before that; and the
\* model is never run after its release
C3_ReleasedExactlyOnce ==
    /\ released = (IF pc = "exited" THEN 1 ELSE 0)
    /\ ~lateRun
    /\ exc # "none" => pc \in {"finally", "exited"}
    /\ pc # "exited" => ENABLED Next

\* main has ended on the error post_process raised, the model released once
C3_Witness ==
    /\ pc = "exited"
    /\ exc = "Error"
    /\ released = 1
    /\ pos = 2
    /\ HasJson(1)

\* C4 as stated: when post_process raised on one image, the image lines after
\* it still get their JSON result
C4_LaterImagesStillProcessed ==
    (pc = "exited" /\ exc = "Error") =>
        \A j \in (pos + 1)..Len(stdin) : stdin[j] = "image" => HasJson(j)

\* C4 amended: the loop never goes past an image line without having written
\* its JSON; when post_process raises, main leaves the loop: that image gets
\* no JSON and its file is not touched, nothing of a later line is read or
\* written, and the model is released on the way out
C4_DecodeErrorEndsTheLoop ==
    /\ \A j \in 1..(pos - 1) : stdin[j] = "image" => HasJson(j)
    /\ exc = "Error" =>
          /\ pc \in {"finally", "exited"}
          /\ stdin[pos] = "image"
          /\ ~input.ok
          /\ ~HasJson(pos)
          /\ srcFile[pos] = <<>>
          /\ \A k \in DOMAIN stdout : stdout[k].image < pos
          /\ pc = "exited" => released = 1

\* post_process raised on the first of two image lines
C4_Witness ==
    /\ pc = "exited"
    /\ exc = "Error"
    /\ pos = 1
    /\ stdin = <<"image", "image">>
    /\ stdout = <<>>

\* C5 as stated: a run that was not interrupted ends with one JSON object per
\* image line of stdin, in input order
C5_OneJsonPerImageLine ==
    (pc = "exited" /\ exc # "KeyboardInterrupt") => JsonImages = ImageLines(Len(stdin))

\* C5 amended: at every moment the JSON objects written are one per image line
\* read before the current one, in input order, followed by the current
\* line's once it is emitted; blank, missing and unreadable lines never get
\* one and the loop goes on after them; an image line whose tensor makes
\* post_process raise gets none either; every detections field is a list, with
\* as many entries as post_process returned rows, none when it returned None;
\* a run that ends by end of input has one JSON object per image line, and
\* none at all on empty stdin
C5_OneJsonPerImageLineRead ==
    /\ JsonImages = ImageLines(pos - 1) \o (IF HasJson(pos) THEN <<pos>> ELSE <<>>)
    /\ \A k \in DOMAIN JsonLines : stdin[JsonLines[k].image] = "image" /\ IsList(JsonLines[k].detections)
    /\ (pc = "side" \/ (pc = "loop" /\ pos > 0 /\ stdin[pos] = "image")) => HasJson(pos)
    /\ (pc \in {"run", "post", "emit"} \/ exc = "Error") => ~HasJson(pos)
    /\ pc = "side" =>
          Len(JsonLines[Len(JsonLines)].detections) = (IF dets.isNone THEN 0 ELSE Len(dets.rows))
    /\ (pc \in {"finally", "exited"} /\ exc = "none") =>
          /\ pos = Len(stdin)
          /\ JsonImages = ImageLines(Len(stdin))
    /\ (pc = "loop" /\ pos < Len(stdin)) => ENABLED ReadLine
    /\ stdin = <<>> => JsonLines = <<>>

\* a missing file, then an image with nothing detected: one JSON object, for
\* the second line, with an empty list
C5_Witness ==
    /\ pc = "exited"
    /\ exc = "none"
    /\ stdin = <<"missing", "image">>
    /\ JsonImages = <<2>>
    /\ JsonLines[1].detections = <<>>
    /\ Len(stdout) = 2

\* C6 as stated: every box of every detections list lies within the image and
\* is not empty
C6_NoEmptyBoxEmitted ==
    \A k \in DOMAIN JsonLines :
        \A n \in DOMAIN JsonLines[k].detections :
            LET b == JsonLines[k].detections[n].box
            IN  /\ 0 <= b[1] /\ b[3] <= ImgW
                /\ 0 <= b[2] /\ b[4] <= ImgH
                /\ b[1] < b[3]
                /\ b[2] < b[4]

\* C7 as stated: with neither --img_save nor --img_show, no source image file
\* is written
C7_SourceUntouchedWithoutFlags ==
    (~img_show /\ ~img_save) => \A i \in DOMAIN srcFile : srcFile[i] = <<>>

\* C7 amended: whatever the flags, a source image file is overwritten, once,
\* exactly when the JSON written for it lists at least one detection; the
\* flags gate only the copy under ./result, which is written exactly when
\* --img_save is set
C7_SourceOverwrittenIffDetections ==
    /\ \A i \in DOMAIN srcFile :
          Len(srcFile[i]) =
              (IF \E k \in DOMAIN JsonLines :
                      JsonLines[k].image = i /\ JsonLines[k].detections # <<>>
               THEN 1 ELSE 0)
    /\ \A i \in DOMAIN resultDir :
          /\ Len(resultDir[i]) <= 1
          /\ Len(resultDir[i]) = 1 => (img_save /\ HasJson(i))
          /\ (img_save /\ i < pos /\ stdin[i] = "image") => Len(resultDir[i]) = 1

\* no flag is set and a source image was overwritten
C7_Witness ==
    /\ ~img_show
    /\ ~img_save
    /\ pc = "exited"
    /\ exc = "none"
    /\ \E i \in DOMAIN srcFile : Len(srcFile[i]) = 1

====
